---- MODULE Spec2Model ----
(***************************************************************************)
(* Model of src/enhanced_graph.py: Particle, ParticleSystem and the        *)
(* particle-related handlers of EnhancedGraphWidget.                       *)
(*                                                                         *)
(* life, dt and size are Python floats (IEEE-754 doubles).  Whether a      *)
(* particle is alive, its alpha and a pulse's size depend on how their     *)
(* arithmetic rounds, so these are modelled as doubles, exactly: a double  *)
(* d is the record [m, e] with  d = m/1000 + e/(1000 * 2^60),  and FSub,   *)
(* FAdd and FMul round to the nearest double, ties to even.                *)
(* Times are whole milliseconds; a dt of n ms is the double nearest to     *)
(* n/1000.  The wall clock (time.time()) is taken to be non-decreasing.    *)
(* Motion (x, y, velocity) is not subject to any rounding-sensitive        *)
(* decision and is kept in exact fixed point:                              *)
(*   velocity           hundredths of a logical unit per second            *)
(*   x, y               1/100000 of a logical unit                         *)
(*   random.random()    hundredths    (0.30 = 30)                          *)
(***************************************************************************)
EXTENDS Integers, Sequences, FiniteSets, TLC

VARIABLES
    particles,      \* ParticleSystem.particles (list of Particle)
    last_update,    \* ParticleSystem.last_update
    now,            \* the wall clock, time.time()
    rng,            \* state of the random module's generator
    nextId,         \* identity of the next Particle object constructed
    op,             \* the last call made and its arguments
    painted,        \* painter calls made by the last draw
    removed,        \* identities of particles dropped from the collection
    late,           \* identities added 0.5 s or more after the update() before
    scen,           \* progress along the add_pulse/update scenario
    HAS_ENHANCED_GRAPHICS,
    uptime_history, \* EnhancedGraphWidget.uptime_history
    time_points,    \* EnhancedGraphWidget.time_points
    last_status,    \* EnhancedGraphWidget.last_status
    target_glow_intensity,
    styleSheet,     \* fallback widget style
    p,              \* a single Particle driven directly
    dt0,            \* the fixed dt it is driven with
    calls,          \* number of Particle.update calls made on p
    ret,            \* value returned by the last Particle.update call on p
    firstFalse      \* index of the first call that returned False (0: none)

sysVars == <<particles, last_update, now, rng, nextId, op, painted, removed,
             late, scen>>
widgetVars == <<HAS_ENHANCED_GRAPHICS, uptime_history, time_points,
                last_status, target_glow_intensity, styleSheet>>
partVars == <<p, dt0, calls, ret, firstFalse>>
vars == <<sysVars, widgetVars, partVars>>

(***************************************************************************)
(* Bounds of the model                                                     *)
(***************************************************************************)
MaxTime == 500          \* Spec: the clock stops advancing here (ms)
MaxCreated == 5         \* Spec: Particle objects constructed
MaxPulseTime == 1100    \* SpecPulse: the clock stops advancing here (ms)
MaxPulses == 3          \* SpecPulse: pulses constructed
MaxDrawTime == 250      \* SpecDraw: the clock stops advancing here (ms)
MaxDraw == 2            \* SpecDraw: Particle objects constructed
MaxWidgetTime == 500    \* SpecWidget: the clock stops advancing here (ms)
MaxWidgetCreated == 17  \* SpecWidget: Particle objects constructed
MaxCalls == 34          \* SpecParticle: Particle.update calls on one particle

(***************************************************************************)
(* Input sets                                                              *)
(***************************************************************************)
None == "None"

RandomVals == <<25, 70>>            \* values random.random() cycles through
Seeds == 1..Len(RandomVals)
Ticks == {250}                      \* clock advances between calls (ms)
PulseTicks == {100}                 \* the same, in SpecPulse
FixedDts == {16, 50, 100, 125, 200, 250, 300, 500, 600}   \* ms
EffectTypes == {"celebration", "sparkle", "pulse"}
AnyTypes == EffectTypes \cup {"glow"}
Xs == {10}
Ys == {20}
Counts == {0, 2, 5}
UptimeData == {<<>>, <<100>>, <<0, 100>>}

Max(a, b) == IF a >= b THEN a ELSE b

\* Python int(n/d) for d > 0: truncation toward zero
Trunc(n, d) == IF n >= 0 THEN n \div d ELSE -((-n) \div d)

\* random.random(): the value produced in generator state s, and the next state
random(s) == RandomVals[s]
advance(s, k) == ((s - 1 + k) % Len(RandomVals)) + 1

(***************************************************************************)
(* Python float arithmetic                                                 *)
(***************************************************************************)
\* the double  m/1000 + e/(1000 * 2^60)
Double(m, e) == [m |-> m, e |-> e]

One == Double(1000, 0)

\* 2^t mod 2000
RECURSIVE PowMod(_)
PowMod(t) ==
    IF t <= 20 THEN (2^t) % 2000
    ELSE (((2^20) % 2000) * PowMod(t - 20)) % 2000

\* the binary exponent E of m/1000 (m > 0): 2^E <= m/1000 < 2^(E+1)
RECURSIVE ExpHigh(_, _)
ExpHigh(m, E) == IF 2000 * 2^E <= m THEN ExpHigh(m, E + 1) ELSE E

RECURSIVE ExpLow(_, _)
ExpLow(m, k) == IF m * 2^k >= 1000 THEN -k ELSE ExpLow(m, k + 1)

Exponent(m) == IF m >= 1000 THEN ExpHigh(m, 0) ELSE ExpLow(m, 1)

\* m/1000 is a power of two (E its binary exponent)
IsPowerOfTwoAt(m, E) ==
    IF E >= 0 THEN m = 1000 * 2^E ELSE m * 2^(-E) = 1000

IsPowerOfTwo(m) == IsPowerOfTwoAt(m, Exponent(m))

\* the double nearest to m/1000 (m > 0): its distance e0 from m/1000, the
\* parity of its 53-bit significand, and the spacing u of the doubles there;
\* x is m * 2^(52-E) mod 2000 and w is 2^(E+10), for E the exponent of m/1000
NearestOf(x, w) ==
    IF 2 * (x % 1000) < 1000
    THEN [e0 |-> -(((x % 1000) * w) \div 4), odd |-> x \div 1000,
          u |-> 250 * w]
    ELSE [e0 |-> ((1000 - (x % 1000)) * w) \div 4, odd |-> 1 - (x \div 1000),
          u |-> 250 * w]

NearestAt(m, E) ==
    NearestOf(((m % 2000) * PowMod(52 - E)) % 2000, 2^(E + 10))

Nearest(m) == NearestAt(m, Exponent(m))

\* the whole number of spacings u nearest to d, ties to the even significand
\* (odd is the parity of the significand at d = 0)
RoundSteps(d, u, odd) ==
    LET k == d \div u
        rem == d - k * u
    IN  IF 2 * rem < u THEN k
        ELSE IF 2 * rem > u THEN k + 1
        ELSE IF (odd + k) % 2 = 0 THEN k ELSE k + 1

RoundTo(m, e, g, u) ==
    Double(m, g.e0 + RoundSteps(e - g.e0, u, g.odd) * u)

\* g is the double nearest to m/1000; below a power of two the doubles are
\* spaced half as far apart
RoundNear(m, e, g) ==
    RoundTo(m, e, g, IF IsPowerOfTwo(m) /\ e < 0 THEN g.u \div 2 ELSE g.u)

\* round m/1000 + e/(1000*2^60), m > 0, to the nearest double, ties to even
RoundPos(m, e) == RoundNear(m, e, Nearest(m))

Neg(a) == Double(-a.m, -a.e)

\* round to the nearest double; a value next to 0 is the difference of two
\* nearby doubles and is a double already
RN(m, e) ==
    IF m = 0 THEN Double(0, e)
    ELSE IF m > 0 THEN RoundPos(m, e)
    ELSE Neg(RoundPos(-m, -e))

FromMs(ms) == RN(ms, 0)             \* the float literal ms/1000
FSub(a, b) == RN(a.m - b.m, a.e - b.e)      \* a - b
FAdd(a, b) == RN(a.m + b.m, a.e + b.e)      \* a + b
FMul(c, a) == RN(c * a.m, c * a.e)          \* c * a, c a whole number

\* a > 0, a <= b
Positive(a) == a.m > 0 \/ (a.m = 0 /\ a.e > 0)
Leq(a, b) == a.m < b.m \/ (a.m = b.m /\ a.e <= b.e)

\* int(a): truncation toward zero
ToInt(a) ==
    IF a.m >= 0
    THEN IF a.m % 1000 = 0 /\ a.e < 0 /\ a.m > 0
         THEN a.m \div 1000 - 1 ELSE a.m \div 1000
    ELSE IF (-a.m) % 1000 = 0 /\ a.e > 0
         THEN -((-a.m) \div 1000 - 1) ELSE -((-a.m) \div 1000)

(***************************************************************************)
(* class Particle                                                          *)
(***************************************************************************)
\* Particle.__init__(x, y, effect_type), drawing from generator state s.
\* x, y are whole logical units.
Particle(id, x, y, effect_type, s) ==
    LET base == [id |-> id,
                 x |-> x * 100000, y |-> y * 100000,
                 start_x |-> x * 100000, start_y |-> y * 100000,
                 effect_type |-> effect_type,
                 life |-> One, max_life |-> One,
                 size |-> Double(3000, 0),
                 velocity_x |-> 0, velocity_y |-> 0,
                 color |-> <<102, 187, 106, 255>>]
    IN  IF effect_type = "celebration" THEN
            [base EXCEPT !.velocity_x = (50 - random(s)) * 20,
                         !.velocity_y = -1000 - random(advance(s, 1)) * 15,
                         !.size = FAdd(Double(4000, 0),
                                       FMul(3, FromMs(random(advance(s, 2)) * 10))),
                         !.color = <<255, 215, 0, 255>>]
        ELSE IF effect_type = "sparkle" THEN
            [base EXCEPT !.velocity_x = (50 - random(s)) * 5,
                         !.velocity_y = (50 - random(advance(s, 1))) * 5,
                         !.size = FAdd(Double(2000, 0),
                                       FMul(2, FromMs(random(advance(s, 2)) * 10)))]
        ELSE IF effect_type = "pulse" THEN
            [base EXCEPT !.size = Double(8000, 0),
                         !.color = <<102, 187, 106, 200>>]
        ELSE base

\* number of random.random() calls made by Particle.__init__
draws(effect_type) ==
    IF effect_type \in {"celebration", "sparkle"} THEN 3 ELSE 0

\* QColor.setAlpha
setAlpha(color, a) == <<color[1], color[2], color[3], a>>

\* a 1.0 s lifetime
decay_slow(life, dt) == FSub(life, dt)

\* self.life -= dt * 2.0
decay(life, dt) == FSub(life, FMul(2, dt))

\* the pulse shrinking with its life instead of growing
pulse_size_shrinking(life) == FAdd(Double(8000, 0), FMul(20, life))

\* pulse_progress = 1.0 - self.life; self.size = 8.0 + pulse_progress * 20
pulse_size(life) == FAdd(Double(8000, 0), FMul(20, FSub(One, life)))

\* alpha = int(k * self.life); max(0, alpha)
faded(k, life) == Max(0, ToInt(FMul(k, life)))

\* the general alpha assignment applied to every effect type
fades_all(effect_type) == TRUE

\* if self.effect_type != "pulse":
fades(effect_type) == effect_type # "pulse"

\* Particle.update(dt), the branch on effect_type; life is the life already
\* decremented
Particle_effect(q, dt, life) ==
    IF q.effect_type = "celebration" THEN
        [q EXCEPT !.life = life,
                  !.x = q.x + q.velocity_x * dt.m,
                  !.y = q.y + q.velocity_y * dt.m,
                  !.velocity_y = q.velocity_y + 3 * dt.m]
    ELSE IF q.effect_type = "sparkle" THEN
        [q EXCEPT !.life = life,
                  !.x = q.x + q.velocity_x * dt.m,
                  !.y = q.y + q.velocity_y * dt.m]
    ELSE IF q.effect_type = "pulse" THEN
        [q EXCEPT !.life = life,
                  !.size = pulse_size(life),
                  !.color = setAlpha(q.color, faded(200, life))]
    ELSE [q EXCEPT !.life = life]

\* Particle.update(dt), the alpha assignment for fading
Particle_fade(q) ==
    IF fades(q.effect_type)
    THEN [q EXCEPT !.color = setAlpha(q.color, faded(255, q.life))]
    ELSE q

\* Particle.update(dt): the particle after the call; the call returns life > 0
Particle_update(q, dt) ==
    Particle_fade(Particle_effect(q, dt, decay(q.life, dt)))

\* a particle whose life is exactly 0 reported alive
is_alive_inclusive(q) == Positive(q.life) \/ q.life = Double(0, 0)

\* return self.life > 0
is_alive(q) == Positive(q.life)

(***************************************************************************)
(* class ParticleSystem                                                    *)
(***************************************************************************)
\* the loop running one time too few
RECURSIVE append_particles_short(_, _, _, _, _, _, _)
append_particles_short(ps, id, x, y, effect_type, count, s) ==
    IF count <= 1 THEN ps
    ELSE append_particles_short(Append(ps, Particle(id, x, y, effect_type, s)),
                                id + 1, x, y, effect_type, count - 1,
                                advance(s, draws(effect_type)))

\* for _ in range(count): self.particles.append(Particle(x, y, effect_type))
RECURSIVE append_particles(_, _, _, _, _, _, _)
append_particles(ps, id, x, y, effect_type, count, s) ==
    IF count <= 0 THEN ps
    ELSE append_particles(Append(ps, Particle(id, x, y, effect_type, s)),
                          id + 1, x, y, effect_type, count - 1,
                          advance(s, draws(effect_type)))

add_celebration_burst(ps, id, x, y, count, s) ==
    append_particles(ps, id, x, y, "celebration", count, s)

add_sparkles(ps, id, x, y, count, s) ==
    append_particles(ps, id, x, y, "sparkle", count, s)

add_pulse(ps, id, x, y, s) ==
    append_particles(ps, id, x, y, "pulse", 1, s)

\* ... if p.update(dt): q, already updated, is kept or not
keep(q) == IF is_alive(q) THEN <<q>> ELSE <<>>

\* the survivors collected in reverse order
RECURSIVE update_all_reversed(_, _)
update_all_reversed(ps, dt) ==
    IF ps = <<>> THEN <<>>
    ELSE update_all_reversed(Tail(ps), dt)
             \o keep(Particle_update(Head(ps), dt))

\* [p for p in self.particles if p.update(dt)]
RECURSIVE update_all(_, _)
update_all(ps, dt) ==
    IF ps = <<>> THEN <<>>
    ELSE keep(Particle_update(Head(ps), dt)) \o update_all(Tail(ps), dt)

Ids(ps) == {ps[i].id : i \in 1..Len(ps)}


\* one particle of the draw loop: the painter call it makes, if any.
\* outcome is what view_box.mapViewToDevice did for this particle:
\* "ok" (a device position), "none" (returned None) or "raise".
\* The view transform is taken as the identity on logical coordinates.
drawEllipse(q) ==
    [id |-> q.id,
     x |-> Trunc(q.x - 50 * q.size.m, 100000),
     y |-> Trunc(q.y - 50 * q.size.m, 100000),
     w |-> ToInt(q.size),
     h |-> ToInt(q.size),
     color |-> q.color]

\* the loop without its try/except: a failed mapping ends the draw
RECURSIVE draw_loop_abort(_, _, _, _)
draw_loop_abort(ps, outcome, i, acc) ==
    IF i > Len(ps) THEN [painted |-> acc, raised |-> FALSE]
    ELSE IF outcome[i] = "raise" THEN [painted |-> acc, raised |-> TRUE]
    ELSE IF outcome[i] = "ok"
         THEN draw_loop_abort(ps, outcome, i + 1,
                              Append(acc, drawEllipse(ps[i])))
         ELSE draw_loop_abort(ps, outcome, i + 1, acc)

\* the for loop of draw from index i on; acc is what has been painted so far.
\* The result records whether an exception left the loop.
RECURSIVE draw_loop(_, _, _, _)
draw_loop(ps, outcome, i, acc) ==
    IF i > Len(ps) THEN [painted |-> acc, raised |-> FALSE]
    ELSE IF outcome[i] = "ok"
         THEN draw_loop(ps, outcome, i + 1, Append(acc, drawEllipse(ps[i])))
         ELSE draw_loop(ps, outcome, i + 1, acc)   \* None, or except: continue

\* ParticleSystem.draw(painter, plot_widget)
draw(ps, has_getViewBox, view_box, outcome) ==
    IF ~has_getViewBox THEN [painted |-> <<>>, raised |-> FALSE]
    ELSE IF view_box = None THEN [painted |-> <<>>, raised |-> FALSE]
    ELSE draw_loop(ps, outcome, 1, <<>>)

Outcomes == {"ok", "none", "raise"}

(***************************************************************************)
(* Bookkeeping shared by the actions                                       *)
(***************************************************************************)
\* the identities id .. id+count-1, if they are added 0.5 s or more after
\* the previous update()
LateIds(id, count) ==
    IF now - last_update >= 500 THEN id..(id + count - 1) ELSE {}

\* the scenario: empty system, add_pulse(10, 20), two updates 0.1 s apart,
\* then updates 0.3 s apart.  0 = not on it.
ScenAfterAdd(name, x, y) ==
    IF name = "add_pulse" /\ particles = <<>> /\ x = 10 /\ y = 20 THEN 1 ELSE 0

ScenAfterUpdate(dt) ==
    IF scen \in {1, 2} /\ dt = 100 THEN scen + 1
    ELSE IF scen \in {3, 4, 5} /\ dt = 300 THEN scen + 1
    ELSE 0

InitSystem ==
    /\ particles = <<>>
    /\ last_update = 0
    /\ now = 0
    /\ rng \in Seeds
    /\ nextId = 1
    /\ op = [name |-> "init"]
    /\ painted = <<>>
    /\ removed = {}
    /\ late = {}
    /\ scen = 0

IdleWidget ==
    /\ HAS_ENHANCED_GRAPHICS = TRUE
    /\ uptime_history = <<>>
    /\ time_points = <<>>
    /\ last_status = None
    /\ target_glow_intensity = 3
    /\ styleSheet = None

IdleParticle ==
    /\ p = None
    /\ dt0 = 0
    /\ calls = 0
    /\ ret = None
    /\ firstFalse = 0

(***************************************************************************)
(* Steps of the ParticleSystem; the wrappers below add the frame           *)
(***************************************************************************)
\* time passes between calls
Tick(ticks, maxTime) ==
    /\ \E d \in ticks : now + d <= maxTime /\ now' = now + d
    /\ UNCHANGED <<particles, last_update, rng, nextId, op, painted, removed,
                   late, scen>>
    /\ UNCHANGED <<widgetVars, partVars>>

AddCelebrationBurst(maxCreated) ==
    /\ \E x \in Xs, y \in Ys, count \in Counts :
        /\ nextId - 1 + count <= maxCreated
        /\ particles' = add_celebration_burst(particles, nextId, x, y, count, rng)
        /\ rng' = advance(rng, count * draws("celebration"))
        /\ nextId' = nextId + count
        /\ late' = late \cup LateIds(nextId, count)
        /\ op' = [name |-> "add_celebration_burst", x |-> x, y |-> y,
                  count |-> count]
        /\ scen' = ScenAfterAdd("add_celebration_burst", x, y)
    /\ painted' = <<>>
    /\ UNCHANGED <<last_update, now, removed>>
    /\ UNCHANGED <<widgetVars, partVars>>

AddSparkles(maxCreated) ==
    /\ \E x \in Xs, y \in Ys, count \in Counts :
        /\ nextId - 1 + count <= maxCreated
        /\ particles' = add_sparkles(particles, nextId, x, y, count, rng)
        /\ rng' = advance(rng, count * draws("sparkle"))
        /\ nextId' = nextId + count
        /\ late' = late \cup LateIds(nextId, count)
        /\ op' = [name |-> "add_sparkles", x |-> x, y |-> y, count |-> count]
        /\ scen' = ScenAfterAdd("add_sparkles", x, y)
    /\ painted' = <<>>
    /\ UNCHANGED <<last_update, now, removed>>
    /\ UNCHANGED <<widgetVars, partVars>>

AddPulse(maxCreated) ==
    /\ \E x \in Xs, y \in Ys :
        /\ nextId - 1 + 1 <= maxCreated
        /\ particles' = add_pulse(particles, nextId, x, y, rng)
        /\ nextId' = nextId + 1
        /\ late' = late \cup LateIds(nextId, 1)
        /\ op' = [name |-> "add_pulse", x |-> x, y |-> y, count |-> 1]
        /\ scen' = ScenAfterAdd("add_pulse", x, y)
    /\ painted' = <<>>
    /\ UNCHANGED <<last_update, now, rng, removed>>
    /\ UNCHANGED <<widgetVars, partVars>>

\* ParticleSystem.update()
ParticleSystem_update ==
    /\ LET current_time == now
           dt == current_time - last_update
       IN  /\ last_update' = current_time
           /\ particles' = update_all(particles, FromMs(dt))
           /\ op' = [name |-> "update", dt |-> dt]
           /\ scen' = ScenAfterUpdate(dt)
    /\ removed' = removed \cup (Ids(particles) \ Ids(particles'))
    /\ painted' = <<>>
    /\ UNCHANGED <<now, rng, nextId, late>>

Update ==
    /\ ParticleSystem_update
    /\ UNCHANGED <<widgetVars, partVars>>

\* ParticleSystem.draw(painter, plot_widget)
ParticleSystem_draw(has_getViewBox, view_box, outcome) ==
    /\ LET r == draw(particles, has_getViewBox, view_box, outcome)
       IN  /\ painted' = r.painted
           /\ op' = [name |-> "draw", has_getViewBox |-> has_getViewBox,
                     view_box |-> view_box, outcome |-> outcome,
                     raised |-> r.raised]
    /\ UNCHANGED <<particles, last_update, now, rng, nextId, removed, late,
                   scen>>

Draw ==
    /\ \E has_getViewBox \in BOOLEAN, view_box \in {None, "ViewBox"},
          outcome \in [1..Len(particles) -> Outcomes] :
        ParticleSystem_draw(has_getViewBox, view_box, outcome)
    /\ UNCHANGED <<widgetVars, partVars>>

(***************************************************************************)
(* Spec: the ParticleSystem driven through add_* and update                *)
(***************************************************************************)
Init == InitSystem /\ IdleWidget /\ IdleParticle

Next ==
    \/ Tick(Ticks, MaxTime)
    \/ AddCelebrationBurst(MaxCreated)
    \/ AddSparkles(MaxCreated)
    \/ AddPulse(MaxCreated)
    \/ Update

Spec == Init /\ [][Next]_vars

(***************************************************************************)
(* SpecPulse: pulses only, on a 0.1 s clock                                *)
(***************************************************************************)
NextPulse ==
    \/ Tick(PulseTicks, MaxPulseTime)
    \/ AddPulse(MaxPulses)
    \/ Update

SpecPulse == Init /\ [][NextPulse]_vars

(***************************************************************************)
(* SpecDraw: the ParticleSystem with draw                                  *)
(***************************************************************************)
NextDraw ==
    \/ Tick(Ticks, MaxDrawTime)
    \/ AddCelebrationBurst(MaxDraw)
    \/ AddSparkles(MaxDraw)
    \/ AddPulse(MaxDraw)
    \/ Update
    \/ Draw

SpecDraw == Init /\ [][NextDraw]_vars

(***************************************************************************)
(* SpecWidget: EnhancedGraphWidget's handlers                              *)
(* The plot items (uptime_line, gradient_fill, pens, current_glow_         *)
(* intensity) belong to the plotting library and are not modelled.         *)
(***************************************************************************)
range(n) == [i \in 1..n |-> i - 1]

\* the burst spawned on every status change, up or down
SpawnsBurst_any(uptime_data, status_changed, is_up) ==
    status_changed /\ Len(uptime_data) > 0

\* if status_changed and len(self.time_points) > 0: ... if is_up:
SpawnsBurst(uptime_data, status_changed, is_up) ==
    status_changed /\ Len(uptime_data) > 0 /\ is_up

\* if is_up and len(self.time_points) > 1:
DrawsGate(uptime_data, is_up) == is_up /\ Len(uptime_data) > 1

update_with_effects(uptime_data, status_changed, is_up) ==
    IF ~HAS_ENHANCED_GRAPHICS THEN
        /\ styleSheet' = IF is_up THEN "#1a4a1a" ELSE "#1e1e1e"
        /\ op' = [name |-> "update_with_effects", uptime_data |-> uptime_data,
                  status_changed |-> status_changed, is_up |-> is_up,
                  before |-> Len(particles)]
        /\ UNCHANGED <<particles, last_update, now, rng, nextId, painted,
                       removed, late, scen>>
        /\ UNCHANGED <<HAS_ENHANCED_GRAPHICS, uptime_history, time_points,
                       last_status, target_glow_intensity>>
    ELSE IF uptime_data = <<>> THEN
        /\ op' = [name |-> "update_with_effects", uptime_data |-> uptime_data,
                  status_changed |-> status_changed, is_up |-> is_up,
                  before |-> Len(particles)]
        /\ UNCHANGED <<particles, last_update, now, rng, nextId, painted,
                       removed, late, scen>>
        /\ UNCHANGED widgetVars
    ELSE
        LET n == Len(uptime_data)
            current_x == range(n)[n]
            current_y == uptime_data[n]
            burst == SpawnsBurst(uptime_data, status_changed, is_up)
            ps1 == IF burst
                   THEN add_pulse(
                            add_celebration_burst(particles, nextId, current_x,
                                                  current_y, 12, rng),
                            nextId + 12, current_x, current_y,
                            advance(rng, 12 * draws("celebration")))
                   ELSE particles
            id1 == IF burst THEN nextId + 13 ELSE nextId
            rng1 == IF burst THEN advance(rng, 12 * draws("celebration"))
                    ELSE rng
            gate == DrawsGate(uptime_data, is_up)
            sparkle == gate /\ random(rng1) < 30
            rng2 == IF gate THEN advance(rng1, 1) ELSE rng1
            ps2 == IF sparkle
                   THEN add_sparkles(ps1, id1, current_x, current_y, 2, rng2)
                   ELSE ps1
            id2 == IF sparkle THEN id1 + 2 ELSE id1
            rng3 == IF sparkle THEN advance(rng2, 2 * draws("sparkle"))
                    ELSE rng2
        IN  /\ id2 - 1 <= MaxWidgetCreated
            /\ uptime_history' = uptime_data
            /\ time_points' = range(n)
            /\ target_glow_intensity' = IF is_up THEN 10 ELSE 3
            /\ particles' = ps2
            /\ nextId' = id2
            /\ rng' = rng3
            /\ late' = late \cup LateIds(nextId, id2 - nextId)
            /\ last_status' = is_up
            /\ op' = [name |-> "update_with_effects",
                      uptime_data |-> uptime_data,
                      status_changed |-> status_changed, is_up |-> is_up,
                      before |-> Len(particles)]
            /\ scen' = 0
            /\ painted' = <<>>
            /\ UNCHANGED <<last_update, now, removed>>
            /\ UNCHANGED <<HAS_ENHANCED_GRAPHICS, styleSheet>>

UpdateWithEffects ==
    /\ \E uptime_data \in UptimeData, status_changed \in BOOLEAN,
          is_up \in BOOLEAN :
        update_with_effects(uptime_data, status_changed, is_up)
    /\ UNCHANGED partVars

\* the animation timer's handler
update_effects ==
    /\ IF ~HAS_ENHANCED_GRAPHICS
       THEN UNCHANGED sysVars
       ELSE ParticleSystem_update
    /\ UNCHANGED <<widgetVars, partVars>>

paintEvent ==
    /\ IF HAS_ENHANCED_GRAPHICS /\ particles # <<>>
       THEN /\ Len(particles) <= MaxDraw
            /\ \E outcome \in [1..Len(particles) -> Outcomes] :
                ParticleSystem_draw(TRUE, "ViewBox", outcome)
       ELSE UNCHANGED sysVars
    /\ UNCHANGED <<widgetVars, partVars>>

clear_graph ==
    /\ IF ~HAS_ENHANCED_GRAPHICS
       THEN UNCHANGED <<sysVars, widgetVars>>
       ELSE /\ uptime_history' = <<>>
            /\ time_points' = <<>>
            /\ particles' = <<>>
            /\ removed' = removed \cup Ids(particles)
            /\ op' = [name |-> "clear_graph"]
            /\ scen' = 0
            /\ painted' = <<>>
            /\ UNCHANGED <<last_update, now, rng, nextId, late>>
            /\ UNCHANGED <<HAS_ENHANCED_GRAPHICS, last_status,
                           target_glow_intensity, styleSheet>>
    /\ UNCHANGED partVars

InitWidget ==
    /\ InitSystem
    /\ HAS_ENHANCED_GRAPHICS \in BOOLEAN
    /\ uptime_history = <<>>
    /\ time_points = <<>>
    /\ last_status = None
    /\ target_glow_intensity = 3
    /\ styleSheet = IF HAS_ENHANCED_GRAPHICS THEN None ELSE "#1e1e1e"
    /\ IdleParticle

NextWidget ==
    \/ Tick(Ticks, MaxWidgetTime)
    \/ UpdateWithEffects
    \/ update_effects
    \/ paintEvent
    \/ clear_graph

SpecWidget == InitWidget /\ [][NextWidget]_vars

(***************************************************************************)
(* SpecParticle: one Particle updated repeatedly with a fixed dt           *)
(***************************************************************************)
InitParticle ==
    /\ InitSystem
    /\ IdleWidget
    /\ \E x \in Xs, y \in Ys, effect_type \in AnyTypes, s \in Seeds :
        p = Particle(1, x, y, effect_type, s)
    /\ dt0 \in FixedDts
    /\ calls = 0
    /\ ret = None
    /\ firstFalse = 0

ParticleStep ==
    /\ calls < MaxCalls
    /\ firstFalse = 0
    /\ p' = Particle_update(p, FromMs(dt0))
    /\ calls' = calls + 1
    /\ ret' = is_alive(p')
    /\ firstFalse' = IF firstFalse = 0 /\ ~is_alive(p') THEN calls + 1
                     ELSE firstFalse
    /\ UNCHANGED <<dt0, sysVars, widgetVars>>

NextParticle == ParticleStep

SpecParticle == InitParticle /\ [][NextParticle]_vars

(***************************************************************************)
(* Properties                                                              *)
(***************************************************************************)
Alpha(q) == q.color[4]

AddNames == {"add_celebration_burst", "add_sparkles", "add_pulse"}

TypeOf(name) ==
    IF name = "add_celebration_burst" THEN "celebration"
    ELSE IF name = "add_sparkles" THEN "sparkle"
    ELSE "pulse"

\* a step that is a call of add_*, of update, of draw, of update_with_effects
\* (Tick is the only step that moves the clock and it leaves op alone)
IsAddStep == op'.name \in AddNames /\ now' = now
IsUpdateStep == op'.name = "update" /\ now' = now
IsDrawStep == op'.name = "draw" /\ now' = now
IsEffectsStep == op'.name = "update_with_effects" /\ now' = now

IdSeq(ps) == [i \in 1..Len(ps) |-> ps[i].id]

CeilDiv(a, b) == (a + b - 1) \div b

Abs(n) == IF n >= 0 THEN n ELSE -n

\* a is m/1000 up to rounding: within 2^23/(1000 * 2^60), about 7e-15
Near(a, m) == a.m = m /\ Abs(a.e) <= 2^23

\* Python round(): to the nearest whole number, ties to even
Round(a) ==
    LET m == Abs(a.m)
        q == m \div 1000
        r == m % 1000
        v == IF r < 500 THEN q
             ELSE IF r > 500 THEN q + 1
             ELSE IF a.e # 0 THEN (IF (a.e > 0) = (a.m >= 0) THEN q + 1 ELSE q)
             ELSE IF q % 2 = 0 THEN q ELSE q + 1
    IN  IF a.m >= 0 THEN v ELSE -v

\* n <= a < n + 1 for a whole number n
InUnit(n, a) ==
    /\ n * 1000 < a.m \/ (n * 1000 = a.m /\ a.e >= 0)
    /\ a.m < (n + 1) * 1000 \/ (a.m = (n + 1) * 1000 /\ a.e < 0)

\* a is k*life cut down to a whole number, and 0 when life is not positive
IsWholePart(a, k, life) ==
    IF Positive(life) THEN InUnit(a, FMul(k, life)) ELSE a = 0

\* C1: after ParticleSystem.update() returns, every particle left in the
\* collection has life > 0 (a life of exactly 0 is dead and removed).
C1_LiveAfterUpdate ==
    op.name = "update" =>
        \A i \in 1..Len(particles) : Positive(particles[i].life)

\* the update at 0.5 s, 0.25 s after the previous one, removed a particle
\* (its life had reached exactly 0) and kept another
C1_Witness ==
    /\ op.name = "update"
    /\ op.dt = 250
    /\ last_update = 500
    /\ removed # {}
    /\ particles # <<>>

\* C2 as stated: with a fixed positive dt a fresh particle's update returns
\* false within ceil(0.5 / (2*dt)) calls, and never while life is still > 0.
C2_WithinQuarter ==
    /\ calls >= CeilDiv(250, dt0) => firstFalse \in 1..CeilDiv(250, dt0)
    /\ (calls >= 1 /\ ~ret) => ~Positive(p.life)

\* C2 amended: with a fixed dt of a millisecond or more a fresh particle's
\* update returns false within ceil(0.5 / dt) + 1 calls and not before call
\* ceil(0.5 / dt), and never while life is still > 0.
C2_WithinHalfPlusOne ==
    /\ calls >= CeilDiv(500, dt0) + 1 => firstFalse # 0
    /\ firstFalse # 0 =>
        firstFalse \in {CeilDiv(500, dt0), CeilDiv(500, dt0) + 1}
    /\ (calls >= 1 /\ ~ret) => ~Positive(p.life)

\* dt = 0.1: rounding leaves life above 0 after the fifth call, and the
\* sixth is the first to return false
C2_Witness ==
    /\ dt0 = 100
    /\ calls = 6
    /\ firstFalse = 6
    /\ ~ret

\* C3 as stated: after every Particle.update the alpha of a celebration or
\* sparkle particle is round(255*life) clamped at 0, that of a pulse is
\* round(200*life) clamped at 0.
C3_AlphaRounded ==
    calls >= 1 =>
        /\ p.effect_type \in {"celebration", "sparkle"} =>
               Alpha(p) = Max(0, Round(FMul(255, p.life)))
        /\ p.effect_type = "pulse" =>
               Alpha(p) = Max(0, Round(FMul(200, p.life)))

\* C3 amended: after every Particle.update the alpha of a celebration or
\* sparkle particle is 255*life cut down to a whole number (int(), not
\* round()) and clamped at 0, that of a pulse is 200*life cut down and
\* clamped at 0, never the 255-based value.
C3_AlphaTruncated ==
    calls >= 1 =>
        /\ p.effect_type \in {"celebration", "sparkle"} =>
               IsWholePart(Alpha(p), 255, p.life)
        /\ p.effect_type = "pulse" =>
               IsWholePart(Alpha(p), 200, p.life)

\* a pulse after one update of 16 ms: life 0.968, alpha 193 (193.6 cut down)
C3_Witness ==
    /\ p.effect_type = "pulse"
    /\ calls = 1
    /\ p.life.m = 968
    /\ Alpha(p) = 193

\* C4 as stated (life 0.6 and size 16.0 read up to rounding): from an empty
\* system, add_pulse(10, 20) and two updates 0.1 s apart leave exactly one
\* pulse with life 0.6, size 16.0 and alpha 120; the first of up to three
\* further updates 0.3 s apart removes it and the collection stays empty.
C4_RemovedByFirst ==
    /\ scen = 3 =>
        /\ Len(particles) = 1
        /\ particles[1].effect_type = "pulse"
        /\ Near(particles[1].life, 600)
        /\ Near(particles[1].size, 16000)
        /\ Alpha(particles[1]) = 120
    /\ scen \in {4, 5, 6} => particles = <<>>

\* C4 amended: ... leave exactly one pulse with life 0.6 and size 16.0 up to
\* rounding and alpha 120; the first further update 0.3 s apart leaves it in
\* the collection with a rounding residue of life above 0 (alpha 0), the
\* second removes it and the collection stays empty.
C4_RemovedBySecond ==
    /\ scen = 3 =>
        /\ Len(particles) = 1
        /\ particles[1].effect_type = "pulse"
        /\ Near(particles[1].life, 600)
        /\ Near(particles[1].size, 16000)
        /\ Alpha(particles[1]) = 120
    /\ scen = 4 =>
        /\ Len(particles) = 1
        /\ Near(particles[1].life, 0)
        /\ Positive(particles[1].life)
        /\ Alpha(particles[1]) = 0
    /\ scen \in {5, 6} => particles = <<>>

\* the scenario has run to its end
C4_Witness == scen = 6 /\ op.name = "update" /\ op.dt = 300

\* C5: add_celebration_burst / add_sparkles / add_pulse append exactly count
\* (respectively 1) new particles of their effect type, at (x, y) with
\* life 1.0, to the end of the collection, and leave the particles already
\* there and last_update unchanged.
C5_AddAppends ==
    [][IsAddStep =>
        LET n == Len(particles)
        IN  /\ Len(particles') = n + op'.count
            /\ SubSeq(particles', 1, n) = particles
            /\ \A i \in (n + 1)..Len(particles') :
                /\ particles'[i].effect_type = TypeOf(op'.name)
                /\ particles'[i].x = op'.x * 100000
                /\ particles'[i].y = op'.y * 100000
                /\ particles'[i].life = One
                /\ particles'[i].id \notin Ids(particles) \cup removed
            /\ last_update' = last_update
    ]_vars

\* a burst of 5 has just been added to an empty collection
C5_Witness ==
    /\ op.name = "add_celebration_burst"
    /\ op.count = 5
    /\ Len(particles) = 5
    /\ \A i \in 1..5 : particles[i].effect_type = "celebration"

\* what C6 says of one pulse q, with size bounded above by `below 28` or not
PulseShape(q, strict) ==
    /\ q.size.m = 8000 + 20 * (1000 - q.life.m)
    /\ Abs(q.size.e + 20 * q.life.e) <= 2^23
    /\ q.life = One => q.size = Double(8000, 0)
    /\ Leq(Double(8000, 0), q.size)
    /\ Leq(q.size, Double(28000, 0))
    /\ strict => q.size # Double(28000, 0)
    /\ q.x = q.start_x /\ q.y = q.start_y

PulseSteps ==
    \A i \in 1..Len(particles), j \in 1..Len(particles') :
        (particles[i].id = particles'[j].id
         /\ particles[i].effect_type = "pulse") =>
            /\ Leq(particles[i].size, particles'[j].size)
            /\ particles'[j].x = particles[i].x
            /\ particles'[j].y = particles[i].y

\* C6 as stated: a pulse has size 8.0 at life 1.0, never moves, its size
\* never decreases over updates and is 8 + 20*(1 - life) (up to rounding);
\* every pulse in the live collection has 8 <= size < 28.
C6_PulseBelow28 ==
    [][/\ \A i \in 1..Len(particles') :
            particles'[i].effect_type = "pulse" =>
                PulseShape(particles'[i], TRUE)
       /\ PulseSteps
    ]_vars

\* C6 amended: ... every pulse in the live collection has 8 <= size <= 28
\* (28.0 itself is reached while life is a rounding residue above 0).
C6_PulseUpTo28 ==
    [][/\ \A i \in 1..Len(particles') :
            particles'[i].effect_type = "pulse" =>
                PulseShape(particles'[i], FALSE)
       /\ PulseSteps
    ]_vars

\* a pulse that has grown to exactly 28.0 is still in the collection, its
\* life a rounding residue above 0
C6_Witness ==
    /\ op.name = "update"
    /\ \E i \in 1..Len(particles) :
        /\ particles[i].effect_type = "pulse"
        /\ Positive(particles[i].life)
        /\ particles[i].size = Double(28000, 0)

\* C7: draw never changes the collection or a particle and never raises;
\* without a view nothing is drawn; otherwise exactly the particles whose
\* coordinate mapping gave a position are drawn, in collection order.
C7_DrawSkipsFailures ==
    [][IsDrawStep =>
        /\ particles' = particles
        /\ ~op'.raised
        /\ (~op'.has_getViewBox \/ op'.view_box = None) => painted' = <<>>
        /\ (op'.has_getViewBox /\ op'.view_box # None) =>
            LET ok == SelectSeq(particles,
                                LAMBDA q : \E i \in 1..Len(particles) :
                                    particles[i] = q /\ op'.outcome[i] = "ok")
            IN  /\ IdSeq(painted') = IdSeq(ok)
                /\ \A k \in 1..Len(painted') :
                    /\ painted'[k].color = ok[k].color
                    /\ InUnit(painted'[k].w, ok[k].size)
    ]_vars

\* the mapping raised for the first of two particles and the second was drawn
C7_Witness ==
    /\ op.name = "draw"
    /\ Len(particles) = 2
    /\ op.has_getViewBox /\ op.view_box # None
    /\ op.outcome[1] = "raise"
    /\ op.outcome[2] = "ok"
    /\ Len(painted) = 1
    /\ painted[1].id = particles[2].id

\* C8: update() updates every particle once with the same dt and keeps
\* exactly those that report alive, in their original order; it adds none,
\* and a removed particle is never in the collection again.
C8_UpdateFilters ==
    [][/\ Ids(particles') \cap removed' = {}
       /\ IsUpdateStep =>
            LET dt == FromMs(now - last_update)
                after(q) == FSub(q.life, FMul(2, dt))
                kept == SelectSeq(particles, LAMBDA q : Positive(after(q)))
            IN  /\ IdSeq(particles') = IdSeq(kept)
                /\ \A k \in 1..Len(particles') :
                    /\ particles'[k].life = after(kept[k])
                    /\ particles'[k].x = kept[k].x + kept[k].velocity_x * dt.m
                /\ Ids(particles') \subseteq Ids(particles)
                /\ removed' = removed \cup (Ids(particles) \ Ids(particles'))
    ]_vars

\* an update dropped some particles and kept at least two others
C8_Witness ==
    /\ op.name = "update"
    /\ op.dt = 250
    /\ last_update = 500
    /\ removed # {}
    /\ Len(particles) >= 2
    /\ particles[1].id < particles[2].id

\* C9: with enhanced graphics, update_with_effects only appends; it adds
\* nothing when is_up is false or uptime_data is empty; with status_changed,
\* is_up and data it adds 12 celebration particles then 1 pulse at the last
\* data point; 2 sparkles can follow only when is_up and the series has more
\* than one point; so a call adds 0, 2, 13 or 15 particles.
C9_EffectsSpawn ==
    [][(IsEffectsStep /\ HAS_ENHANCED_GRAPHICS) =>
        LET n == Len(particles)
            added == Len(particles') - n
            data == op'.uptime_data
            burst == op'.status_changed /\ op'.is_up /\ data # <<>>
            b == IF burst THEN 13 ELSE 0
        IN  /\ SubSeq(particles', 1, n) = particles
            /\ added \in {0, 2, 13, 15}
            /\ (~op'.is_up \/ data = <<>>) => added = 0
            /\ added \in {b, b + 2}
            /\ burst =>
                /\ \A i \in (n + 1)..(n + 12) :
                    particles'[i].effect_type = "celebration"
                /\ particles'[n + 13].effect_type = "pulse"
                /\ \A i \in (n + 1)..(n + 13) :
                    /\ particles'[i].x = (Len(data) - 1) * 100000
                    /\ particles'[i].y = data[Len(data)] * 100000
            /\ added = b + 2 =>
                /\ op'.is_up /\ Len(data) > 1
                /\ \A i \in (n + b + 1)..(n + b + 2) :
                    particles'[i].effect_type = "sparkle"
    ]_vars

\* a status change to up with two data points spawned burst, pulse and sparkles
C9_Witness ==
    /\ op.name = "update_with_effects"
    /\ HAS_ENHANCED_GRAPHICS
    /\ op.status_changed /\ op.is_up
    /\ Len(particles) - op.before = 15

====
